---- MODULE Spec2Model ----
(***************************************************************************)
(* A model of simple-wm (src/main.rs): the client registry, the frame      *)
(* lifecycle (frame / unframe), the five event handlers and the drag       *)
(* record, together with the part of the X server state the handlers read  *)
(* and write (window geometry, parent, save-set, existing frame windows).  *)
(*                                                                         *)
(* One iteration of the event loop is one action: XNextEvent, the match    *)
(* and the whole handler.  It leaves in `ev` the event it handled and in   *)
(* `cmds` the Xlib calls it issued, in order; LoopBack, the jump to the    *)
(* top of the loop, drops both.                                            *)
(***************************************************************************)
EXTENDS Integers, Sequences, FiniteSets, TLC

VARIABLES
    clients,    \* WindowManager.clients : HashMap<Window, Window>, a set of <<client, frame>>
    drag,       \* WindowManager.drag : DragInfo
    wattr,      \* server: geometry of every client window (relative to its parent)
    frames,     \* server: geometry of every existing frame window, NoWindow otherwise
    parent,     \* server: parent of every client window (Root or a frame)
    save_set,   \* server: the manager's save-set
    grabbed,    \* server: TRUE while the manager holds the server grab
    pending,    \* main: the part of top_level_windows not yet enumerated
    pc,         \* main: "init", "enumerate", "loop" (about to call XNextEvent) or "handled"
    drag_owner, \* history: the clients whose press recorded the current drag (none or one)
    ev,         \* the event (or startup step) the current loop iteration handled
    cmds        \* the Xlib calls the current loop iteration issued, in order

vars == <<clients, drag, wattr, frames, parent, save_set, grabbed, pending, pc, drag_owner, ev, cmds>>

(***************************************************************************)
(* Bounds of the model.                                                    *)
(***************************************************************************)
NumClients == 2     \* application windows 1..NumClients
MaxCoord == 2       \* events are taken while window coordinates are inside 0..MaxCoord
MaxSize == 3        \* events are taken while window widths and heights are inside 0..MaxSize
IntBits == 8        \* width of c_int / c_uint in the model (32 in the build)
WireBits == 4       \* width of the protocol's INT16 / CARD16 fields in the model (16 in the build)

(***************************************************************************)
(* Constants of the program and of Xlib.                                   *)
(***************************************************************************)
Root == 0
BORDER_WIDTH == 3
IsUnmapped == 0
IsUnviewable == 1
IsViewable == 2

Clients == 1..NumClients
FrameIds == (NumClients + 1)..(2 * NumClients)
NoWindow == [x |-> -1, y |-> -1, width |-> -1, height |-> -1]

Coords == 0..MaxCoord
Sizes == 0..MaxSize

Button1Mask == "Button1Mask"
Button3Mask == "Button3Mask"
CWX == "CWX"
CWY == "CWY"
CWWidth == "CWWidth"
CWHeight == "CWHeight"

(***************************************************************************)
(* Machine integers.  c_int arithmetic wraps in a release build; `as       *)
(* c_uint` reinterprets a negative value as a large unsigned one and       *)
(* `as c_int` does the reverse.                                            *)
(***************************************************************************)
RECURSIVE Pow2(_)
Pow2(n) == IF n = 0 THEN 1 ELSE 2 * Pow2(n - 1)

wrap_c_int(v) == ((v + Pow2(IntBits - 1)) % Pow2(IntBits)) - Pow2(IntBits - 1)
as_c_uint(v) == v % Pow2(IntBits)
as_c_int(v) == wrap_c_int(v)
max(a, b) == IF a >= b THEN a ELSE b

(***************************************************************************)
(* HashMap<Window, Window>, as the set of its <<key, value>> entries.      *)
(***************************************************************************)
contains_key(m, k) == \E p \in m : p[1] = k
index(m, k) == (CHOOSE p \in m : p[1] = k)[2]
insert(m, k, v) == {p \in m : p[1] # k} \cup {<<k, v>>}
remove(m, k) == {p \in m : p[1] # k}

(***************************************************************************)
(* The world a handler runs in, and the Xlib calls.  Each call appends     *)
(* itself to the log and applies its effect to the server state.           *)
(***************************************************************************)
World ==
    [clients |-> clients, drag |-> drag, wattr |-> wattr, frames |-> frames,
     parent |-> parent, save_set |-> save_set, cmds |-> <<>>]

Cmd(op, win, args) == [op |-> op, win |-> win, args |-> args]
Issue(s, c) == [s EXCEPT !.cmds = Append(@, c)]

Geometry(s, win) == IF win \in Clients THEN s.wattr[win] ELSE s.frames[win]
SetGeometry(s, win, g) ==
    IF win \in Clients THEN [s EXCEPT !.wattr[win] = g]
    ELSE IF win \in FrameIds /\ s.frames[win] # NoWindow THEN [s EXCEPT !.frames[win] = g]
    ELSE s

XGetWindowAttributes(s, w, a) ==
    Issue(s, Cmd("XGetWindowAttributes", w, <<a.override_redirect, a.map_state>>))

XCreateSimpleWindow(s, f, x, y, width, height, border_width) ==
    Issue([s EXCEPT !.frames[f] = [x |-> x, y |-> y, width |-> width, height |-> height]],
          Cmd("XCreateSimpleWindow", f, <<x, y, width, height, border_width>>))

XSelectInput(s, win) == Issue(s, Cmd("XSelectInput", win, <<>>))
XAddToSaveSet(s, w) == Issue([s EXCEPT !.save_set = @ \cup {w}], Cmd("XAddToSaveSet", w, <<>>))
XRemoveFromSaveSet(s, w) == Issue([s EXCEPT !.save_set = @ \ {w}], Cmd("XRemoveFromSaveSet", w, <<>>))

XReparentWindow(s, w, p, x, y) ==
    Issue([s EXCEPT !.parent[w] = p, !.wattr[w].x = x, !.wattr[w].y = y],
          Cmd("XReparentWindow", w, <<p, x, y>>))

XMapWindow(s, win) == Issue(s, Cmd("XMapWindow", win, <<>>))
XUnmapWindow(s, win) == Issue(s, Cmd("XUnmapWindow", win, <<>>))
XDestroyWindow(s, f) == Issue([s EXCEPT !.frames[f] = NoWindow], Cmd("XDestroyWindow", f, <<>>))
XGrabButton(s, button, w) == Issue(s, Cmd("XGrabButton", w, <<button>>))
XGrabKey(s, w) == Issue(s, Cmd("XGrabKey", w, <<>>))
XRaiseWindow(s, win) == Issue(s, Cmd("XRaiseWindow", win, <<>>))
XGetGeometry(s, win) == Issue(s, Cmd("XGetGeometry", win, <<>>))

MaskBits(value_mask) ==
    <<IF CWX \in value_mask THEN 1 ELSE 0, IF CWY \in value_mask THEN 1 ELSE 0,
      IF CWWidth \in value_mask THEN 1 ELSE 0, IF CWHeight \in value_mask THEN 1 ELSE 0>>

XConfigureWindow(s, win, value_mask, changes) ==
    LET g == Geometry(s, win)
        g2 == [x |-> IF CWX \in value_mask THEN changes.x ELSE g.x,
               y |-> IF CWY \in value_mask THEN changes.y ELSE g.y,
               width |-> IF CWWidth \in value_mask THEN changes.width ELSE g.width,
               height |-> IF CWHeight \in value_mask THEN changes.height ELSE g.height]
    IN Issue(SetGeometry(s, win, g2),
             Cmd("XConfigureWindow", win,
                 MaskBits(value_mask) \o <<changes.x, changes.y, changes.width, changes.height>>))

XMoveWindow(s, win, x, y) ==
    Issue(SetGeometry(s, win, [Geometry(s, win) EXCEPT !.x = x, !.y = y]),
          Cmd("XMoveWindow", win, <<x, y>>))

XResizeWindow(s, win, width, height) ==
    Issue(SetGeometry(s, win, [Geometry(s, win) EXCEPT !.width = width, !.height = height]),
          Cmd("XResizeWindow", win, <<width, height>>))

(***************************************************************************)
(* WindowManager::frame.  `a` is what XGetWindowAttributes reports for the *)
(* window's override_redirect and map_state, `f` the id the server gives   *)
(* the new frame window.                                                   *)
(***************************************************************************)
\* Mutant: the startup filter with `&&` for `||`.
rejected_when_both(created_before, x_window_attrs) ==
    created_before
    /\ (x_window_attrs.override_redirect # 0 /\ x_window_attrs.map_state # IsViewable)

rejected(created_before, x_window_attrs) ==
    created_before
    /\ (x_window_attrs.override_redirect # 0 \/ x_window_attrs.map_state # IsViewable)

\* Mutant: the client reparented into the frame before it joins the save-set.
do_frame_steps_reparent_first(s, w, created_before, a, f) ==
    LET x_window_attrs ==
            [x |-> s.wattr[w].x, y |-> s.wattr[w].y,
             width |-> s.wattr[w].width, height |-> s.wattr[w].height,
             override_redirect |-> a.override_redirect, map_state |-> a.map_state]
        s1 == XGetWindowAttributes(s, w, a)
    IN  IF rejected(created_before, x_window_attrs)
        THEN <<s1>>
        ELSE
            LET s2 == XCreateSimpleWindow(s1, f, x_window_attrs.x, x_window_attrs.y,
                                          as_c_uint(x_window_attrs.width),
                                          as_c_uint(x_window_attrs.height), BORDER_WIDTH)
                s3 == XSelectInput(s2, f)
                s4 == XReparentWindow(s3, w, f, 0, 0)
                s5 == XAddToSaveSet(s4, w)
                s6 == XMapWindow(s5, f)
                s7 == [s6 EXCEPT !.clients = insert(@, w, f)]
                s8 == XGrabButton(s7, 1, w)
                s9 == XGrabButton(s8, 3, w)
            IN  <<s1, s2, s3, s4, s5, s6, s7, s8, s9, XGrabKey(s9, w)>>

\* frame, past its early return for a registered window: the world after each
\* of its statements, in order.
do_frame_steps(s, w, created_before, a, f) ==
    LET x_window_attrs ==
            [x |-> s.wattr[w].x, y |-> s.wattr[w].y,
             width |-> s.wattr[w].width, height |-> s.wattr[w].height,
             override_redirect |-> a.override_redirect, map_state |-> a.map_state]
        s1 == XGetWindowAttributes(s, w, a)
    IN  IF rejected(created_before, x_window_attrs)
        THEN <<s1>>
        ELSE
            LET s2 == XCreateSimpleWindow(s1, f, x_window_attrs.x, x_window_attrs.y,
                                          as_c_uint(x_window_attrs.width),
                                          as_c_uint(x_window_attrs.height), BORDER_WIDTH)
                s3 == XSelectInput(s2, f)
                s4 == XAddToSaveSet(s3, w)
                s5 == XReparentWindow(s4, w, f, 0, 0)
                s6 == XMapWindow(s5, f)
                s7 == [s6 EXCEPT !.clients = insert(@, w, f)]
                s8 == XGrabButton(s7, 1, w)
                s9 == XGrabButton(s8, 3, w)
            IN  <<s1, s2, s3, s4, s5, s6, s7, s8, s9, XGrabKey(s9, w)>>

\* The world frame leaves behind.
do_frame(s, w, created_before, a, f) ==
    LET steps == do_frame_steps(s, w, created_before, a, f)
    IN  steps[Len(steps)]

\* Mutant: frame without its early return.
frame_unguarded(s, w, created_before, a, f) == do_frame(s, w, created_before, a, f)

frame(s, w, created_before, a, f) ==
    IF contains_key(s.clients, w) THEN s ELSE do_frame(s, w, created_before, a, f)

(***************************************************************************)
(* WindowManager::unframe.                                                 *)
(***************************************************************************)
\* Mutant: unframe that forgets to remove the registry entry.
unframe_keeps_entry(s, w) ==
    IF ~contains_key(s.clients, w) THEN s
    ELSE
        LET f == index(s.clients, w)
            s1 == XUnmapWindow(s, f)
            s2 == XReparentWindow(s1, w, Root, 0, 0)
            s3 == XRemoveFromSaveSet(s2, w)
        IN  XDestroyWindow(s3, f)

\* Mutant: unframe that destroys the frame before it reparents the client.
unframe_steps_destroy_first(s, w) ==
    LET f == index(s.clients, w)
        s1 == XUnmapWindow(s, f)
        s2 == XDestroyWindow(s1, f)
        s3 == XReparentWindow(s2, w, Root, 0, 0)
        s4 == XRemoveFromSaveSet(s3, w)
    IN  <<s1, s2, s3, s4, [s4 EXCEPT !.clients = remove(@, w)]>>

\* unframe, past its early return for an unregistered window: the world after
\* each of its statements, in order.
unframe_steps(s, w) ==
    LET f == index(s.clients, w)
        s1 == XUnmapWindow(s, f)
        s2 == XReparentWindow(s1, w, Root, 0, 0)
        s3 == XRemoveFromSaveSet(s2, w)
        s4 == XDestroyWindow(s3, f)
    IN  <<s1, s2, s3, s4, [s4 EXCEPT !.clients = remove(@, w)]>>

\* Mutant: unframe that leaves the frame window behind.
unframe_leaks_frame(s, w) ==
    IF ~contains_key(s.clients, w) THEN s
    ELSE
        LET f == index(s.clients, w)
            s1 == XUnmapWindow(s, f)
            s2 == XReparentWindow(s1, w, Root, 0, 0)
            s3 == XRemoveFromSaveSet(s2, w)
        IN  [s3 EXCEPT !.clients = remove(@, w)]

unframe(s, w) ==
    IF ~contains_key(s.clients, w) THEN s
    ELSE LET steps == unframe_steps(s, w) IN steps[Len(steps)]

(***************************************************************************)
(* The five event handlers.                                                *)
(***************************************************************************)
\* Mutant: map_request that frames as the startup enumeration does.
map_request_as_startup(s, e, a, f) == XMapWindow(frame(s, e.window, TRUE, a, f), e.window)
map_request(s, e, a, f) == XMapWindow(frame(s, e.window, FALSE, a, f), e.window)

\* Mutant: unmap_notify without its test of the event window.
unmap_notify_any_event(s, e) == unframe(s, e.window)

unmap_notify(s, e) == IF e.event = Root THEN s ELSE unframe(s, e.window)

\* Mutant: configure_request that hands every geometry bit to the server.
configure_request_all_fields(s, e) ==
    LET changes == [x |-> e.x, y |-> e.y, width |-> e.width, height |-> e.height]
        all == {CWX, CWY, CWWidth, CWHeight}
        s1 == IF contains_key(s.clients, e.window)
              THEN XConfigureWindow(s, index(s.clients, e.window), all, changes)
              ELSE s
    IN  XConfigureWindow(s1, e.window, all, changes)
configure_request(s, e) ==
    LET changes == [x |-> e.x, y |-> e.y, width |-> e.width, height |-> e.height]
        s1 == IF contains_key(s.clients, e.window)
              THEN XConfigureWindow(s, index(s.clients, e.window), e.value_mask, changes)
              ELSE s
    IN  XConfigureWindow(s1, e.window, e.value_mask, changes)

\* Mutant: button_press that records the pointer before it looks the window up.
button_press_records_first(s, e) ==
    LET r == [s EXCEPT !.drag.start_pos = <<e.x_root, e.y_root>>]
    IN  IF ~contains_key(r.clients, e.window) THEN r
        ELSE
            LET f == index(r.clients, e.window)
                s1 == XGetGeometry(r, f)
                g == Geometry(r, f)
                s2 == [s1 EXCEPT !.drag.start_frame_pos = <<g.x, g.y>>,
                                 !.drag.start_frame_size = <<as_c_int(g.width), as_c_int(g.height)>>]
            IN  XRaiseWindow(s2, f)

button_press(s, e) ==
    IF ~contains_key(s.clients, e.window) THEN s
    ELSE
        LET f == index(s.clients, e.window)
            s1 == XGetGeometry(s, f)
            g == Geometry(s, f)
            s2 == [s1 EXCEPT !.drag = [start_pos |-> <<e.x_root, e.y_root>>,
                                       start_frame_pos |-> <<g.x, g.y>>,
                                       start_frame_size |-> <<as_c_int(g.width), as_c_int(g.height)>>]]
        IN  XRaiseWindow(s2, f)

\* Mutant: the move with the delta subtracted.
dest_frame_pos_minus(start_frame_pos, delta) == wrap_c_int(start_frame_pos - delta)
\* Mutant: the resize without the clamp.
size_delta_unclamped(delta, start_frame_size) == delta

\* One axis of the move and of the resize.
dest_frame_pos(start_frame_pos, delta) == wrap_c_int(start_frame_pos + delta)
size_delta(delta, start_frame_size) == max(delta, wrap_c_int(-start_frame_size))
dest_frame_size(start_frame_size, delta) ==
    as_c_uint(wrap_c_int(start_frame_size + size_delta(delta, start_frame_size)))

\* Mutant: motion_notify that tests the secondary button first.
motion_notify_resize_first(s, e) ==
    IF ~contains_key(s.clients, e.window) THEN s
    ELSE
        LET f == index(s.clients, e.window)
            drag_pos == <<e.x_root, e.y_root>>
            delta == <<wrap_c_int(drag_pos[1] - s.drag.start_pos[1]),
                       wrap_c_int(drag_pos[2] - s.drag.start_pos[2])>>
        IN  IF Button3Mask \in e.state
            THEN
                LET w2 == dest_frame_size(s.drag.start_frame_size[1], delta[1])
                    h2 == dest_frame_size(s.drag.start_frame_size[2], delta[2])
                IN  XResizeWindow(XResizeWindow(s, f, w2, h2), e.window, w2, h2)
            ELSE IF Button1Mask \in e.state
            THEN XMoveWindow(s, f, dest_frame_pos(s.drag.start_frame_pos[1], delta[1]),
                                   dest_frame_pos(s.drag.start_frame_pos[2], delta[2]))
            ELSE s
motion_notify(s, e) ==
    IF ~contains_key(s.clients, e.window) THEN s
    ELSE
        LET f == index(s.clients, e.window)
            drag_pos == <<e.x_root, e.y_root>>
            delta == <<wrap_c_int(drag_pos[1] - s.drag.start_pos[1]),
                       wrap_c_int(drag_pos[2] - s.drag.start_pos[2])>>
        IN  IF Button1Mask \in e.state
            THEN XMoveWindow(s, f, dest_frame_pos(s.drag.start_frame_pos[1], delta[1]),
                                   dest_frame_pos(s.drag.start_frame_pos[2], delta[2]))
            ELSE IF Button3Mask \in e.state
            THEN
                LET w2 == dest_frame_size(s.drag.start_frame_size[1], delta[1])
                    h2 == dest_frame_size(s.drag.start_frame_size[2], delta[2])
                IN  XResizeWindow(XResizeWindow(s, f, w2, h2), e.window, w2, h2)
            ELSE s

(***************************************************************************)
(* Where a handler can panic.  Indexing the HashMap panics on a missing    *)
(* key.  A c_int `+`, `-` or negation whose result does not fit panics in  *)
(* a build with overflow checks (the dev profile) and wraps in a build     *)
(* without them (the release profile); the handlers above compute the      *)
(* wrapped result, the operators below say when the checked build panics.  *)
(* The `as` casts never panic.                                             *)
(***************************************************************************)
\* The values Xlib delivers in the INT16 fields of events and replies (the
\* CARD16 fields hold 0..Pow2(WireBits) - 1).
INT16 == (-Pow2(WireBits - 1))..(Pow2(WireBits - 1) - 1)

c_int_MIN == -Pow2(IntBits - 1)
c_int_MAX == Pow2(IntBits - 1) - 1
\* Mutant: arithmetic checked at the width of the protocol fields.
overflows_narrow(v) == v \notin INT16

overflows(v) == v < c_int_MIN \/ v > c_int_MAX
index_panics(m, k) == ~contains_key(m, k)

unframe_panics(s, w) == contains_key(s.clients, w) /\ index_panics(s.clients, w)
unmap_notify_panics(s, e) == e.event # Root /\ unframe_panics(s, e.window)
configure_request_panics(s, e) ==
    contains_key(s.clients, e.window) /\ index_panics(s.clients, e.window)
button_press_panics(s, e) ==
    contains_key(s.clients, e.window) /\ index_panics(s.clients, e.window)

motion_notify_panics(s, e) ==
    /\ contains_key(s.clients, e.window)
    /\ \/ index_panics(s.clients, e.window)
       \/ \E i \in 1..2 :
            LET drag_pos == <<e.x_root, e.y_root>>
                delta == drag_pos[i] - s.drag.start_pos[i]
                start_frame_pos == s.drag.start_frame_pos[i]
                start_frame_size == s.drag.start_frame_size[i]
            IN  \/ overflows(delta)
                \/ /\ Button1Mask \in e.state
                   /\ overflows(start_frame_pos + delta)
                \/ /\ Button1Mask \notin e.state
                   /\ Button3Mask \in e.state
                   /\ \/ overflows(-start_frame_size)
                      \/ overflows(start_frame_size + max(delta, -start_frame_size))

\* The dispatch of main's loop: frame and map_request index nothing and
\* compute nothing, and an event of another type runs no handler.
panics(s, e) ==
    CASE e.type = "UnmapNotify" -> unmap_notify_panics(s, e)
      [] e.type = "ConfigureRequest" -> configure_request_panics(s, e)
      [] e.type = "ButtonPress" -> button_press_panics(s, e)
      [] e.type = "MotionNotify" -> motion_notify_panics(s, e)
      [] OTHER -> FALSE

(***************************************************************************)
(* Inputs.                                                                 *)
(***************************************************************************)
Attrs == [override_redirect : {0, 1}, map_state : {IsUnmapped, IsUnviewable, IsViewable}]

\* Pointer positions (x_root, y_root) the events carry.
PointerPts == {<<0, 0>>, <<1, 2>>}

\* Geometries the application windows start with.
InitGeoms == {[x |-> p[1], y |-> p[2], width |-> 1, height |-> 1] : p \in PointerPts}

\* Geometries the configure requests ask for, and the value masks they carry.
ReqGeoms == {[x |-> 1, y |-> 2, width |-> 2, height |-> 3]}
ValueMasks == {{}, {CWX, CWY}, {CWWidth, CWHeight}, {CWX, CWY, CWWidth, CWHeight}}

NoEvent == [type |-> "None"]
MapRequests == [type : {"MapRequest"}, window : Clients]
UnmapNotifies == [type : {"UnmapNotify"}, event : {Root} \cup FrameIds, window : Clients \cup FrameIds]
ConfigureRequests ==
    {[type |-> "ConfigureRequest", window |-> w, x |-> g.x, y |-> g.y,
      width |-> g.width, height |-> g.height, value_mask |-> m] :
        w \in Clients, g \in ReqGeoms, m \in ValueMasks}
ButtonPresses ==
    {[type |-> "ButtonPress", window |-> w, x_root |-> p[1], y_root |-> p[2]] :
        w \in Clients, p \in PointerPts}
MotionNotifies ==
    {[type |-> "MotionNotify", window |-> w, state |-> m, x_root |-> p[1], y_root |-> p[2]] :
        w \in Clients, m \in SUBSET {Button1Mask, Button3Mask}, p \in PointerPts}
OtherEvents == [type : {"ButtonRelease", "KeyPress"}, window : Clients]

FreeFrameIds(s) == {f \in FrameIds : s.frames[f] = NoWindow}
NewIds(s, w) == IF contains_key(s.clients, w) THEN {Root} ELSE FreeFrameIds(s)

\* Window sequences without repetition: what XQueryTree can return.
TopLevelLists ==
    {q \in UNION {[1..n -> Clients] : n \in 0..NumClients} :
        \A i, j \in DOMAIN q : i # j => q[i] # q[j]}

\* The loop takes its next event only while every geometry is inside the bounds.
InRange(s) ==
    /\ \A w \in Clients :
        /\ s.wattr[w].x \in Coords /\ s.wattr[w].y \in Coords
        /\ s.wattr[w].width \in Sizes /\ s.wattr[w].height \in Sizes
    /\ \A f \in FrameIds : s.frames[f] # NoWindow =>
        /\ s.frames[f].x \in Coords /\ s.frames[f].y \in Coords
        /\ s.frames[f].width \in Sizes /\ s.frames[f].height \in Sizes

Commit(s, e) ==
    /\ clients' = s.clients
    /\ drag' = s.drag
    /\ wattr' = s.wattr
    /\ frames' = s.frames
    /\ parent' = s.parent
    /\ save_set' = s.save_set
    /\ cmds' = s.cmds
    /\ ev' = e

(***************************************************************************)
(* main.                                                                   *)
(***************************************************************************)
Init ==
    /\ clients = {}
    /\ drag = [start_pos |-> <<0, 0>>, start_frame_pos |-> <<0, 0>>, start_frame_size |-> <<0, 0>>]
    /\ wattr \in [Clients -> InitGeoms]
    /\ frames = [f \in FrameIds |-> NoWindow]
    /\ parent = [w \in Clients |-> Root]
    /\ save_set = {}
    /\ grabbed = FALSE
    /\ pending = <<>>
    /\ pc = "init"
    /\ drag_owner = {}
    /\ ev = NoEvent
    /\ cmds = <<>>

\* XGrabServer; XQueryTree.
\* Mutant: the window list queried without the server grab.
QueryTreeUngrabbed ==
    /\ pc = "init"
    /\ \E q \in TopLevelLists : pending' = q
    /\ grabbed' = FALSE
    /\ pc' = "enumerate"
    /\ ev' = NoEvent
    /\ cmds' = <<Cmd("XQueryTree", Root, <<>>)>>
    /\ UNCHANGED <<clients, drag, wattr, frames, parent, save_set, drag_owner>>
QueryTree ==
    /\ pc = "init"
    /\ \E q \in TopLevelLists : pending' = q
    /\ grabbed' = TRUE
    /\ pc' = "enumerate"
    /\ ev' = NoEvent
    /\ cmds' = <<Cmd("XGrabServer", Root, <<>>), Cmd("XQueryTree", Root, <<>>)>>
    /\ UNCHANGED <<clients, drag, wattr, frames, parent, save_set, drag_owner>>

\* One iteration of the enumeration loop: frame(top_level_windows[i], true).
Enumerate ==
    /\ pc = "enumerate"
    /\ pending # <<>>
    /\ \E a \in Attrs : \E f \in NewIds(World, Head(pending)) :
        Commit(frame(World, Head(pending), TRUE, a, f),
               [type |-> "Enumerate", window |-> Head(pending)])
    /\ pending' = Tail(pending)
    /\ UNCHANGED <<grabbed, pc, drag_owner>>

\* XFree; XUngrabServer; the loop is entered.
EndEnumerate ==
    /\ pc = "enumerate"
    /\ pending = <<>>
    /\ grabbed' = FALSE
    /\ pc' = "loop"
    /\ ev' = NoEvent
    /\ cmds' = <<>>
    /\ UNCHANGED <<clients, drag, wattr, frames, parent, save_set, pending, drag_owner>>

MapRequest ==
    /\ pc = "loop"
    /\ InRange(World)
    /\ \E e \in MapRequests : \E a \in Attrs : \E f \in NewIds(World, e.window) :
        Commit(map_request(World, e, a, f), e)
    /\ pc' = "handled"
    /\ UNCHANGED <<grabbed, pending, drag_owner>>

UnmapNotify ==
    /\ pc = "loop"
    /\ InRange(World)
    /\ \E e \in UnmapNotifies : Commit(unmap_notify(World, e), e)
    /\ pc' = "handled"
    /\ UNCHANGED <<grabbed, pending, drag_owner>>

ConfigureRequest ==
    /\ pc = "loop"
    /\ InRange(World)
    /\ \E e \in ConfigureRequests : Commit(configure_request(World, e), e)
    /\ pc' = "handled"
    /\ UNCHANGED <<grabbed, pending, drag_owner>>

ButtonPress ==
    /\ pc = "loop"
    /\ InRange(World)
    /\ \E e \in ButtonPresses :
        /\ Commit(button_press(World, e), e)
        /\ drag_owner' = IF contains_key(clients, e.window) THEN {e.window} ELSE drag_owner
    /\ pc' = "handled"
    /\ UNCHANGED <<grabbed, pending>>

MotionNotify ==
    /\ pc = "loop"
    /\ InRange(World)
    /\ \E e \in MotionNotifies : Commit(motion_notify(World, e), e)
    /\ pc' = "handled"
    /\ UNCHANGED <<grabbed, pending, drag_owner>>

\* Mutant: a loop whose other arm ends the drag session.
OtherEventEndsDrag ==
    /\ pc = "loop"
    /\ InRange(World)
    /\ \E e \in OtherEvents :
        Commit([World EXCEPT !.drag = [start_pos |-> <<0, 0>>, start_frame_pos |-> <<0, 0>>,
                                       start_frame_size |-> <<0, 0>>]], e)
    /\ pc' = "handled"
    /\ UNCHANGED <<grabbed, pending, drag_owner>>

\* Every other event type: the `_ => ()` arm.
OtherEvent ==
    /\ pc = "loop"
    /\ InRange(World)
    /\ \E e \in OtherEvents : Commit(World, e)
    /\ pc' = "handled"
    /\ UNCHANGED <<grabbed, pending, drag_owner>>

\* The end of a loop iteration: `e` goes out of scope.
LoopBack ==
    /\ pc = "handled"
    /\ pc' = "loop"
    /\ ev' = NoEvent
    /\ cmds' = <<>>
    /\ UNCHANGED <<clients, drag, wattr, frames, parent, save_set, grabbed, pending, drag_owner>>

Next ==
    \/ QueryTree
    \/ Enumerate
    \/ EndEnumerate
    \/ MapRequest
    \/ UnmapNotify
    \/ ConfigureRequest
    \/ ButtonPress
    \/ MotionNotify
    \/ OtherEvent
    \/ LoopBack

Spec == Init /\ [][Next]_vars

(***************************************************************************)
(* Properties.                                                             *)
(***************************************************************************)
Entries(m, w) == {p \in m : p[1] = w}
Ops(log) == {log[i].op : i \in DOMAIN log}
Resting == pc \in {"enumerate", "loop"}

\* C1: the registry is one-to-one in every reachable state: no client id has
\* more than one entry and no frame id is the frame of more than one client.
C1_RegistryOneToOne ==
    \A p, q \in clients : (p[1] = q[1] \/ p[2] = q[2]) => p = q

C1_Witness ==
    /\ Cardinality(clients) >= 2
    /\ pc = "handled"
    /\ ev.type = "MapRequest"
    /\ "XCreateSimpleWindow" \in Ops(cmds)

\* frame(w) called twice in succession from the current state, each call with
\* its own created_before, attributes and server-chosen frame id.
FrameTwiceOk(w, cb1, a1, f1, cb2, a2, f2, guarded) ==
    LET s1 == frame(World, w, cb1, a1, f1)
        s1c == [s1 EXCEPT !.cmds = <<>>]
        s2 == frame(s1c, w, cb2, a2, f2)
    IN  (guarded => contains_key(s1.clients, w)) =>
            /\ s2.cmds = <<>>
            /\ s2 = s1c
            /\ Cardinality(Entries(s2.clients, w)) = 1

FrameTwiceAll(guarded) ==
    \A w \in Clients : \A cb1, cb2 \in BOOLEAN : \A a1, a2 \in Attrs :
        \A f1 \in NewIds(World, w) : \A f2 \in FrameIds \ {f1} :
            FrameTwiceOk(w, cb1, a1, f1, cb2, a2, f2, guarded)

\* C2 (as amended): whenever the first of two successive calls of frame(w)
\* leaves w registered (w was registered already, or the call framed it), the
\* second call issues no server operation and changes nothing, and the registry
\* holds exactly one entry for w.
C2_FrameIdempotent == Resting => FrameTwiceAll(TRUE)

\* C2 (as stated): the same for every first call, also one the startup filter
\* rejected.
C2_AsStated == Resting => FrameTwiceAll(FALSE)

\* The program calls frame on a registered window: a map request for it.
C2_Witness ==
    /\ pc = "handled"
    /\ ev.type = "MapRequest"
    /\ Len(cmds) = 1
    /\ cmds[1].op = "XMapWindow"
    /\ Cardinality(Entries(clients, ev.window)) = 1

\* C3: frame(w) followed by unframe(w), for a window w that was not registered,
\* leaves the registry without w and every other entry as it was.
C3_RoundTrip ==
    Resting =>
        \A w \in Clients : ~contains_key(clients, w) =>
            \A cb \in BOOLEAN : \A a \in Attrs : \A f \in NewIds(World, w) :
                LET s2 == unframe(frame(World, w, cb, a, f), w)
                IN  /\ ~contains_key(s2.clients, w)
                    /\ s2.clients = clients

\* The program unframes a window it framed before.
C3_Witness ==
    /\ pc = "handled"
    /\ ev.type = "UnmapNotify"
    /\ "XDestroyWindow" \in Ops(cmds)
    /\ ~contains_key(clients, ev.window)
    /\ clients # {}

\* A step that handles an event of the given type.
HandlerStep(type) == pc = "loop" /\ pc' = "handled" /\ ev'.type = type
\* A step of the startup enumeration: frame(Head(pending), true).
EnumerateStep == pc = "enumerate" /\ pc' = "enumerate" /\ pending # <<>> /\ pending' = Tail(pending)
ServerUnchanged ==
    /\ wattr' = wattr
    /\ frames' = frames
    /\ parent' = parent
    /\ save_set' = save_set

\* C4: during startup enumeration a window whose override-redirect attribute
\* is set, or whose map state is not viewable, is not inserted into the
\* registry, no frame window is created for it and no save-set, reparent, map
\* or grab call is issued for it: the attribute query is the only call.
C4_StartupFilter ==
    [][(/\ EnumerateStep
        /\ cmds' # <<>>
        /\ cmds'[1].op = "XGetWindowAttributes"
        /\ (cmds'[1].args[1] # 0 \/ cmds'[1].args[2] # IsViewable))
       => /\ clients' = clients
          /\ ~contains_key(clients', Head(pending))
          /\ ServerUnchanged
          /\ Len(cmds') = 1]_vars

C4_Witness ==
    /\ pc = "enumerate"
    /\ ev.type = "Enumerate"
    /\ Len(cmds) = 1
    /\ cmds[1].op = "XGetWindowAttributes"
    /\ cmds[1].args[1] # 0
    /\ cmds[1].args[2] = IsViewable
    /\ ~contains_key(clients, ev.window)

\* C5: an unmap notification whose event window is the root never unframes,
\* whatever its window field (registered or not): registry, drag record and
\* server state stay as they were and no call is issued.
C5_RootUnmapIgnored ==
    [][(HandlerStep("UnmapNotify") /\ ev'.event = Root)
       => /\ clients' = clients
          /\ drag' = drag
          /\ ServerUnchanged
          /\ cmds' = <<>>]_vars

C5_Witness ==
    /\ pc = "handled"
    /\ ev.type = "UnmapNotify"
    /\ ev.event = Root
    /\ contains_key(clients, ev.window)
    /\ cmds = <<>>

\* C6: an unmap notification, button press or pointer motion naming a window
\* that is not registered changes neither the registry nor the drag record and
\* issues no call; a configure request naming such a window leaves the registry
\* and every frame as they were and issues the one configure call on the
\* window itself; only a map request adds a registry entry, and it always
\* registers the window it names.
C6_UnregisteredEventSafety ==
    [][(pc = "loop" /\ pc' = "handled") =>
        /\ (/\ ev'.type \in {"UnmapNotify", "ButtonPress", "MotionNotify"}
            /\ ~contains_key(clients, ev'.window))
           => /\ clients' = clients
              /\ drag' = drag
              /\ ServerUnchanged
              /\ cmds' = <<>>
        /\ (ev'.type = "ConfigureRequest" /\ ~contains_key(clients, ev'.window))
           => /\ clients' = clients
              /\ drag' = drag
              /\ frames' = frames
              /\ Len(cmds') = 1
              /\ cmds'[1].op = "XConfigureWindow"
              /\ cmds'[1].win = ev'.window
        /\ (clients' \ clients # {}) => ev'.type = "MapRequest"
        /\ ev'.type = "MapRequest" => contains_key(clients', ev'.window)]_vars

C6_Witness ==
    /\ pc = "handled"
    /\ ev.type = "ConfigureRequest"
    /\ ~contains_key(clients, ev.window)
    /\ clients # {}
    /\ Len(cmds) = 1
    /\ ev.value_mask # {}

MoveOrResize(log) == Ops(log) \cap {"XMoveWindow", "XResizeWindow"} # {}
\* A step that handles a pointer motion naming a registered client.
MotionStep == HandlerStep("MotionNotify") /\ contains_key(clients, ev'.window)
\* A step that handles a button press naming a registered client.
PressStep == HandlerStep("ButtonPress") /\ contains_key(clients, ev'.window)

\* C7 (as stated): a pointer motion for a registered client that arrives
\* before any button press was handled issues no move and no resize.
C7_MotionBeforePressNoOp ==
    [][(MotionStep /\ drag_owner = {}) => ~MoveOrResize(cmds')]_vars

\* C8 (as stated): after a press on client A, a pointer motion naming another
\* registered client B, which had no press since, does not move or resize B's
\* frame from the record of A's press.
C8_DragBelongsToPresser ==
    [][(MotionStep /\ drag_owner # {} /\ ev'.window \notin drag_owner)
       => ~MoveOrResize(cmds')]_vars

\* C9: a press on a registered client records the pointer and the frame's
\* position; a later motion for that client with the primary button bit set
\* moves its frame to exactly recorded position + (pointer - recorded pointer)
\* and leaves the sizes of frame and client as they were.
C9_DragMove ==
    [][/\ PressStep =>
            LET f == index(clients, ev'.window)
            IN  /\ drag'.start_pos = <<ev'.x_root, ev'.y_root>>
                /\ drag'.start_frame_pos = <<frames[f].x, frames[f].y>>
       /\ (MotionStep /\ drag_owner = {ev'.window} /\ Button1Mask \in ev'.state) =>
            LET w == ev'.window
                f == index(clients, w)
                x == drag.start_frame_pos[1] + ev'.x_root - drag.start_pos[1]
                y == drag.start_frame_pos[2] + ev'.y_root - drag.start_pos[2]
            IN  /\ cmds' = <<Cmd("XMoveWindow", f, <<x, y>>)>>
                /\ frames'[f] = [frames[f] EXCEPT !.x = x, !.y = y]
                /\ wattr'[w] = wattr[w]]_vars

C9_Witness ==
    /\ pc = "handled"
    /\ ev.type = "MotionNotify"
    /\ Button1Mask \in ev.state
    /\ drag_owner = {ev.window}
    /\ Len(cmds) = 1
    /\ cmds[1].op = "XMoveWindow"
    /\ drag.start_frame_pos = <<1, 2>>
    /\ drag.start_pos = <<0, 0>>
    /\ cmds[1].args = <<2, 4>>
    /\ frames[index(clients, ev.window)].x = 2
    /\ frames[index(clients, ev.window)].y = 4

\* C10: a press on a registered client records the frame's size (w, h); a
\* later motion for that client with only the secondary button bit set and
\* pointer delta (dx, dy) resizes frame and client to exactly
\* (max(0, w + dx), max(0, h + dy)), never to a negative or wrapped value.
C10_DragResizeClamp ==
    [][/\ PressStep =>
            LET f == index(clients, ev'.window)
            IN  drag'.start_frame_size = <<frames[f].width, frames[f].height>>
       /\ (MotionStep /\ drag_owner = {ev'.window} /\ ev'.state = {Button3Mask}) =>
            LET w == ev'.window
                f == index(clients, w)
                width == max(0, drag.start_frame_size[1] + ev'.x_root - drag.start_pos[1])
                height == max(0, drag.start_frame_size[2] + ev'.y_root - drag.start_pos[2])
            IN  /\ cmds' = <<Cmd("XResizeWindow", f, <<width, height>>),
                             Cmd("XResizeWindow", w, <<width, height>>)>>
                /\ frames'[f] = [frames[f] EXCEPT !.width = width, !.height = height]
                /\ wattr'[w] = [wattr[w] EXCEPT !.width = width, !.height = height]]_vars

\* The clamp acts: the recorded height is positive and the delta would take it
\* below zero.
C10_Witness ==
    /\ pc = "handled"
    /\ ev.type = "MotionNotify"
    /\ ev.state = {Button3Mask}
    /\ drag_owner = {ev.window}
    /\ contains_key(clients, ev.window)
    /\ drag.start_frame_size[2] > 0
    /\ drag.start_frame_size[2] + ev.y_root - drag.start_pos[2] < 0
    /\ wattr[ev.window].height = 0
    /\ frames[index(clients, ev.window)].height = 0

\* The geometry fields a value mask does not select keep their value, and the
\* fields it selects take the requested value.
PassThrough(old, new, e) ==
    /\ new.x = (IF CWX \in e.value_mask THEN e.x ELSE old.x)
    /\ new.y = (IF CWY \in e.value_mask THEN e.y ELSE old.y)
    /\ new.width = (IF CWWidth \in e.value_mask THEN e.width ELSE old.width)
    /\ new.height = (IF CWHeight \in e.value_mask THEN e.height ELSE old.height)

\* C11: a configure request for a registered client leaves every geometry
\* field its value mask does not select unchanged on the client and on its
\* frame (a mask of width and height only leaves x and y of both unchanged),
\* sets the selected fields of both to the requested values, and touches no
\* other window, the registry or the drag record.
C11_GeometryPassThrough ==
    [][(HandlerStep("ConfigureRequest") /\ contains_key(clients, ev'.window)) =>
            LET w == ev'.window
                f == index(clients, w)
            IN  /\ PassThrough(frames[f], frames'[f], ev')
                /\ PassThrough(wattr[w], wattr'[w], ev')
                /\ \A v \in Clients \ {w} : wattr'[v] = wattr[v]
                /\ \A g \in FrameIds \ {f} : frames'[g] = frames[g]
                /\ clients' = clients
                /\ drag' = drag
                /\ Len(cmds') = 2
                /\ cmds'[1].op = "XConfigureWindow" /\ cmds'[1].win = f
                /\ cmds'[2].op = "XConfigureWindow" /\ cmds'[2].win = w]_vars

\* A request selecting only width and height has been handled for a registered
\* client whose frame sits away from the requested position: the size changed
\* and the position stayed.
C11_Witness ==
    /\ pc = "handled"
    /\ ev.type = "ConfigureRequest"
    /\ ev.value_mask = {CWWidth, CWHeight}
    /\ contains_key(clients, ev.window)
    /\ frames[index(clients, ev.window)].x # ev.x
    /\ frames[index(clients, ev.window)].width = ev.width
    /\ wattr[ev.window].width = ev.width
    /\ wattr[ev.window].x # ev.x

\* The positions in a call log of the calls with the given name and window.
Calls(log, op, win) == {i \in DOMAIN log : log[i].op = op /\ log[i].win = win}

\* C12: a map request for a window w frames w with created_before = false and
\* only then maps w: after the handler w is registered whatever its
\* override-redirect attribute and map state are, the handler's last call is
\* the one map of w, and for a window that was not registered the reparent
\* into the new frame and the map of that frame come before it; for a window
\* that was already registered the map of w is the handler's only call.
C12_MapRequestFramesThenMaps ==
    [][HandlerStep("MapRequest") =>
            LET w == ev'.window
                n == Len(cmds')
            IN  /\ contains_key(clients', w)
                /\ Calls(cmds', "XMapWindow", w) = {n}
                /\ IF contains_key(clients, w)
                   THEN n = 1 /\ clients' = clients /\ ServerUnchanged
                   ELSE LET f == index(clients', w)
                        IN  /\ clients' = insert(clients, w, f)
                            /\ frames[f] = NoWindow /\ frames'[f] # NoWindow
                            /\ parent'[w] = f
                            /\ \E i \in Calls(cmds', "XReparentWindow", w) :
                               \E j \in Calls(cmds', "XMapWindow", f) :
                                    /\ cmds'[i].args = <<f, 0, 0>>
                                    /\ i < j /\ j < n]_vars

\* A map request has been handled for an unregistered override-redirect window
\* that was not viewable: it is registered, and its frame was mapped before it.
C12_Witness ==
    /\ pc = "handled"
    /\ ev.type = "MapRequest"
    /\ cmds[1] = Cmd("XGetWindowAttributes", ev.window, <<1, IsUnmapped>>)
    /\ contains_key(clients, ev.window)
    /\ Calls(cmds, "XMapWindow", index(clients, ev.window)) # {}
    /\ cmds[Len(cmds)] = Cmd("XMapWindow", ev.window, <<>>)

\* Drag records and motion events at the ends of the protocol's ranges: pointer
\* and frame positions at the ends of INT16, frame sizes at the ends of CARD16.
WirePts == {<<v, v>> : v \in {-Pow2(WireBits - 1), 0, Pow2(WireBits - 1) - 1}}
WireSizes == {<<v, v>> : v \in {0, 1, Pow2(WireBits) - 1}}
WireDrags == [start_pos : WirePts, start_frame_pos : WirePts, start_frame_size : WireSizes]
WireMotions ==
    {[type |-> "MotionNotify", window |-> w, state |-> b, x_root |-> p[1], y_root |-> p[2]] :
        w \in Clients, b \in SUBSET {Button1Mask, Button3Mask}, p \in WirePts}

C14_EnumerationUnderGrab ==
    [][/\ (pc = "init" /\ pc' # "init") =>
            /\ ~grabbed /\ grabbed'
            /\ pc' = "enumerate"
            /\ cmds' = <<Cmd("XGrabServer", Root, <<>>), Cmd("XQueryTree", Root, <<>>)>>
       /\ pc = "enumerate" => grabbed
       /\ EnumerateStep => grabbed' /\ ev' = [type |-> "Enumerate", window |-> Head(pending)]
       /\ (pc = "enumerate" /\ pc' # "enumerate") =>
            /\ pending = <<>>
            /\ pc' = "loop" /\ ~grabbed' /\ ev' = NoEvent
       /\ pc \in {"loop", "handled"} =>
            /\ ~grabbed /\ ~grabbed' /\ pending = <<>>
            /\ pc' \in {"loop", "handled"}
       /\ ev'.type \notin {"None", "Enumerate"} => pc = "loop" /\ ev = NoEvent]_vars

\* The enumeration is under way: a window of the list has been framed, another
\* one is still to come, and the grab is held.
C14_Witness ==
    /\ pc = "enumerate"
    /\ grabbed
    /\ ev.type = "Enumerate"
    /\ contains_key(clients, ev.window)
    /\ pending # <<>>

\* C15: unframe of a registered client w with frame f issues, in this order and
\* nothing else, the unmap of f, the reparent of w to the root at (0,0), the
\* removal of w from the save-set and the destruction of f, and removes the
\* registry entry last; at no point inside unframe is f destroyed while w is
\* still its child, nor the entry gone while f still exists.  unframe of an
\* unregistered window changes nothing and issues nothing.
C15_UnframeOrder ==
    pc = "loop" =>
        \A w \in Clients \cup FrameIds :
            IF contains_key(clients, w)
            THEN LET f == index(clients, w)
                     steps == unframe_steps(World, w)
                 IN  /\ Len(steps) = 5
                     /\ steps[4].cmds = cmds \o <<Cmd("XUnmapWindow", f, <<>>),
                                                  Cmd("XReparentWindow", w, <<Root, 0, 0>>),
                                                  Cmd("XRemoveFromSaveSet", w, <<>>),
                                                  Cmd("XDestroyWindow", f, <<>>)>>
                     /\ \A i \in 1..4 :
                            /\ Len(steps[i].cmds) = Len(cmds) + i
                            /\ steps[i].clients = clients
                     /\ steps[5] = [steps[4] EXCEPT !.clients = remove(clients, w)]
                     /\ \A i \in 1..5 :
                            /\ steps[i].frames[f] = NoWindow => steps[i].parent[w] # f
                            /\ ~contains_key(steps[i].clients, w) => steps[i].frames[f] = NoWindow
                     /\ unframe(World, w) = steps[5]
            ELSE unframe(World, w) = World

\* An unmap notification has unframed a registered client: the four calls were
\* issued, the client is back under the root and out of the save-set and the
\* registry.
C15_Witness ==
    /\ pc = "handled"
    /\ ev.type = "UnmapNotify"
    /\ Len(cmds) = 4
    /\ cmds[2] = Cmd("XReparentWindow", ev.window, <<Root, 0, 0>>)
    /\ cmds[4].op = "XDestroyWindow"
    /\ frames[cmds[4].win] = NoWindow
    /\ parent[ev.window] = Root
    /\ ev.window \notin save_set
    /\ ~contains_key(clients, ev.window)

\* C16: a motion event for a registered client with the primary button bit set
\* issues one move of the frame and no resize, also when the secondary bit is
\* set as well; with only the secondary bit set it issues one resize of the
\* frame and one of the client, to the same size, and leaves the frame's
\* position unchanged; with neither bit set it issues nothing and changes no
\* geometry.  The registry and the drag record are unchanged in all three cases.
C16_ButtonSelection ==
    [][MotionStep =>
            LET w == ev'.window
                f == index(clients, w)
            IN  /\ clients' = clients
                /\ drag' = drag
                /\ parent' = parent /\ save_set' = save_set
                /\ Button1Mask \in ev'.state =>
                        /\ Len(cmds') = 1
                        /\ cmds'[1].op = "XMoveWindow" /\ cmds'[1].win = f
                        /\ frames' = [frames EXCEPT ![f].x = cmds'[1].args[1],
                                                    ![f].y = cmds'[1].args[2]]
                        /\ wattr' = wattr
                /\ ev'.state = {Button3Mask} =>
                        /\ Len(cmds') = 2
                        /\ cmds'[1].op = "XResizeWindow" /\ cmds'[1].win = f
                        /\ cmds'[2].op = "XResizeWindow" /\ cmds'[2].win = w
                        /\ cmds'[2].args = cmds'[1].args
                        /\ frames' = [frames EXCEPT ![f].width = cmds'[1].args[1],
                                                    ![f].height = cmds'[1].args[2]]
                        /\ wattr' = [wattr EXCEPT ![w].width = cmds'[1].args[1],
                                                  ![w].height = cmds'[1].args[2]]
                /\ ev'.state = {} => cmds' = <<>> /\ ServerUnchanged]_vars

\* A motion with both button bits set has been handled for a registered client
\* with the pointer away from where the press recorded it: the frame was moved
\* and nothing was resized.
C16_Witness ==
    /\ pc = "handled"
    /\ ev.type = "MotionNotify"
    /\ ev.state = {Button1Mask, Button3Mask}
    /\ contains_key(clients, ev.window)
    /\ drag.start_pos # <<ev.x_root, ev.y_root>>
    /\ Ops(cmds) = {"XMoveWindow"}
    /\ frames[index(clients, ev.window)].width = wattr[ev.window].width

\* C17: between two handled events every registered client fills its frame
\* exactly: its width and height equal the frame's and its position inside the
\* frame is (0,0).
C17_ClientFillsFrame ==
    pc \in {"loop", "handled"} =>
        \A p \in clients :
            /\ wattr[p[1]].width = frames[p[2]].width
            /\ wattr[p[1]].height = frames[p[2]].height
            /\ wattr[p[1]].x = 0
            /\ wattr[p[1]].y = 0

\* C18: an event of any kind other than the five handled ones changes neither
\* the registry nor the drag record nor any window, and issues no call; a
\* button release leaves the drag record as the last press wrote it.
C18_OtherEventsIgnored ==
    [][(/\ pc = "loop" /\ pc' = "handled"
        /\ ev'.type \notin {"MapRequest", "UnmapNotify", "ConfigureRequest",
                            "ButtonPress", "MotionNotify"}) =>
            /\ clients' = clients
            /\ drag' = drag
            /\ ServerUnchanged
            /\ cmds' = <<>>]_vars

\* A button release has been handled for the client whose press wrote the drag
\* record: the record is still that of the press.
C18_Witness ==
    /\ pc = "handled"
    /\ ev.type = "ButtonRelease"
    /\ contains_key(clients, ev.window)
    /\ drag_owner = {ev.window}
    /\ drag.start_pos = <<1, 2>>
    /\ drag.start_frame_size # <<0, 0>>
    /\ cmds = <<>>

\* In world s every client window whose parent is a frame is in the save-set.
SaveSetCovers(s) == \A w \in Clients : s.parent[w] \in FrameIds => w \in s.save_set

\* C19: in every state a client window whose parent is a frame is in the
\* save-set, and so it is after each single statement of frame and of unframe:
\* frame adds the client to the save-set before it reparents it into the frame,
\* unframe reparents it back to the root before it removes it from the save-set.
\* Between handled events a client is in the save-set exactly when it is
\* registered.
C19_SaveSetProtection ==
    /\ SaveSetCovers(World)
    /\ save_set = {p[1] : p \in clients}
    /\ pc = "loop" =>
        \A w \in Clients :
            IF contains_key(clients, w)
            THEN LET steps == unframe_steps(World, w)
                 IN  \A i \in DOMAIN steps : SaveSetCovers(steps[i])
            ELSE \A a \in Attrs : \A f \in NewIds(World, w) :
                    LET steps == do_frame_steps(World, w, FALSE, a, f)
                    IN  \A i \in DOMAIN steps : SaveSetCovers(steps[i])
    /\ (pc = "enumerate" /\ pending # <<>> /\ ~contains_key(clients, Head(pending))) =>
        \A a \in Attrs : \A f \in NewIds(World, Head(pending)) :
            LET steps == do_frame_steps(World, Head(pending), TRUE, a, f)
            IN  \A i \in DOMAIN steps : SaveSetCovers(steps[i])

\* A map request has framed a window: it joined the save-set before it was
\* reparented, and it is now a child of its frame and in the save-set.
C19_Witness ==
    /\ pc = "handled"
    /\ ev.type = "MapRequest"
    /\ contains_key(clients, ev.window)
    /\ parent[ev.window] = index(clients, ev.window)
    /\ ev.window \in save_set
    /\ \E i \in Calls(cmds, "XAddToSaveSet", ev.window) :
       \E j \in Calls(cmds, "XReparentWindow", ev.window) : i < j

\* The frame windows that exist, and the frame windows the registry names.
LiveFrames(fr) == {f \in FrameIds : fr[f] # NoWindow}
RegisteredFrames(m) == {p[2] : p \in m}

\* C20: no frame window is leaked or dangling: before and after every step the
\* frame windows created and not destroyed are exactly the frames the registry
\* names, and a step that creates a frame window creates it for the window it
\* frames, which was not registered before and is registered with that frame
\* after.
C20_NoFrameLeak ==
    [][/\ LiveFrames(frames) = RegisteredFrames(clients)
       /\ LiveFrames(frames') = RegisteredFrames(clients')
       /\ \A i \in DOMAIN cmds' : cmds'[i].op = "XCreateSimpleWindow" =>
            /\ ~contains_key(clients, ev'.window)
            /\ clients' = insert(clients, ev'.window, cmds'[i].win)
            /\ frames[cmds'[i].win] = NoWindow
       /\ \A i \in DOMAIN cmds' : cmds'[i].op = "XDestroyWindow" =>
            /\ <<ev'.window, cmds'[i].win>> \in clients
            /\ clients' = remove(clients, ev'.window)]_vars

\* One of two framed clients has been unframed: its frame is gone, the other
\* client's frame is the only frame left.
C20_Witness ==
    /\ pc = "handled"
    /\ ev.type = "UnmapNotify"
    /\ "XDestroyWindow" \in Ops(cmds)
    /\ Cardinality(clients) = 1
    /\ LiveFrames(frames) = RegisteredFrames(clients)
    /\ Cardinality(LiveFrames(frames)) = 1

====
